---- MODULE Spec2Model ----
(***************************************************************************)
(* A model of the nxt Nix expression evaluator: the AST builder's scope    *)
(* stack and variable side table (nxt/src/ast/build.rs), the lazily forced *)
(* closures of nxt/src/value.rs, the evaluation pipeline of                *)
(* nxt/src/eval.rs with the translation of expressions it runs, the        *)
(* attribute sets of nxt/src/value.rs, the choice of the parse error to    *)
(* report (src/parser.rs) and the log level of nxt/src/main.rs.            *)
(***************************************************************************)
EXTENDS Integers, Sequences, FiniteSets, TLC

VARIABLES
    pc,         \* position inside Builder::new / builder ready / panicked
    scopes,     \* Builder.scopes: Vec<Scope>, each Scope a map name -> Variable
    variables,  \* Builder.variables: Vec<VarInfo>
    decls,      \* history: per scope, the names define_variable declared there
    naive,      \* reference scope chain without lookup caching
    nvars,      \* number of variables the reference chain has declared
    issued,     \* history: the successful define_variable calls, in order
    last,       \* the last builder operation and what it returned
    lambda,     \* per closure, the body of the lambda it was created from
    closures,   \* per closure, its ClosureInner state, value and evaluations
    stack,      \* the closures being forced, outermost first
    forced,     \* the last outermost force and how it ended
    env,        \* the process environment: home directory, search path entries
    arena,      \* the Arenas an EvalContext was created with: its allocations
    codemap,    \* EvalContext.codemap: the number of files added to it
    call,       \* the eval call in progress or just returned, stage by stage
    printed,    \* what the process has written to stderr and stdout, in order
    status,     \* the process: running, exited with a status, or panicked
    members,    \* a Value::Set: the entries of its BTreeMap, as iter() yields them
    inserted,   \* history: the keys inserted into the set, in insertion order
    errors,     \* the ParseErrors rnix reported for a source, in its order
    extracted,  \* what extract_error returned for them
    opts,       \* Opts: the -v and -q occurrence counters
    logger      \* run: not reached, rejected, or the LevelFilter initialised

\* The builder's variables and the closure engine's.
bvars == <<pc, scopes, variables, decls, naive, nvars, issued, last>>

cvars == <<lambda, closures, stack, forced>>

\* The evaluation pipeline's variables and the attribute set's.
evars == <<env, arena, codemap, call, printed, status>>

svars == <<members, inserted>>

\* The parse errors' variables and the command line's.
pvars == <<errors, extracted>>

ovars == <<opts, logger>>

vars == <<pc, scopes, variables, decls, naive, nvars, issued, last,
          lambda, closures, stack, forced,
          env, arena, codemap, call, printed, status, members, inserted,
          errors, extracted, opts, logger>>

----------------------------------------------------------------------------
(* Bounds of the model. *)

\* Deepest scope stack explored.
MaxDepth == 3

\* Largest variable side table explored.
MaxVars == 4

\* Identifiers the builder is asked about: the two built-ins and one other.
Names == {"true", "false", "x"}

----------------------------------------------------------------------------
(* Results: Result<Variable, ()>. *)

Ok(v) == [tag |-> "Ok", var |-> v]

Err == [tag |-> "Err"]

\* Scope::empty(): a scope with no entries.
EmptyScope == << >>

\* Insertion into a vacant entry of a hash map.
Insert(entries, name, v) == (name :> v) @@ entries

\* file.span.subspan(0, 0): the synthetic zero-length span of a built-in.
ZeroSpan == [low |-> 0, high |-> 0]

\* The span of a declaration made by the source text (non-empty).
DeclSpan == [low |-> 1, high |-> 2]

\* Expr::Value(Value::Bool(b)) allocated in the arenas.
BoolExpr(b) == [expr |-> "Value", value |-> [type |-> "Bool", bool |-> b]]

\* An expression bound by a declaration in the source text.
SomeExpr == [expr |-> "Value", value |-> [type |-> "Null"]]

VarInfo(span, name, value) == [decl_span |-> span, name |-> name, value |-> value]

----------------------------------------------------------------------------
(* Builder::resolve_local_variable and Builder::define_variable. *)

\* The slow path of resolve_local_variable: walk rest.iter_mut().rev(), that
\* is scopes i, i-1, .., 1 of `rest`, and return the first hit.
RECURSIVE WalkUp(_, _, _)
WalkUp(rest, i, name) ==
    IF i = 0 THEN Err
    ELSE IF name \in DOMAIN rest[i] THEN Ok(rest[i][name])
    ELSE WalkUp(rest, i - 1, name)

\* Variants of resolve_local_variable with one slip each.

\* The walk without `.rev()`: scopes 1, 2, .., of `rest`, outermost first.
RECURSIVE WalkDown(_, _, _)
WalkDown(rest, i, name) ==
    IF i > Len(rest) THEN Err
    ELSE IF name \in DOMAIN rest[i] THEN Ok(rest[i][name])
    ELSE WalkDown(rest, i + 1, name)

resolve_outermost_first(sc, name) ==
    LET n == Len(sc)
        innermost == sc[n]
        rest == SubSeq(sc, 1, n - 1)
    IN  IF name \in DOMAIN innermost
        THEN [res |-> Ok(innermost[name]), scopes |-> sc]
        ELSE LET hit == WalkDown(rest, 1, name)
             IN  IF hit.tag = "Ok"
                 THEN [res |-> hit,
                       scopes |-> [sc EXCEPT ![n] = Insert(innermost, name, hit.var)]]
                 ELSE [res |-> Err, scopes |-> sc]

\* The nearest hit is returned but the outermost hit is what gets cached.
resolve_caches_other_hit(sc, name) ==
    LET n == Len(sc)
        innermost == sc[n]
        rest == SubSeq(sc, 1, n - 1)
    IN  IF name \in DOMAIN innermost
        THEN [res |-> Ok(innermost[name]), scopes |-> sc]
        ELSE LET hit == WalkUp(rest, n - 1, name)
                 far == WalkDown(rest, 1, name)
             IN  IF hit.tag = "Ok"
                 THEN [res |-> hit,
                       scopes |-> [sc EXCEPT ![n] = Insert(innermost, name, far.var)]]
                 ELSE [res |-> Err, scopes |-> sc]

\* A miss leaves an entry behind in the innermost scope.
resolve_miss_inserts(sc, name) ==
    LET n == Len(sc)
        innermost == sc[n]
        rest == SubSeq(sc, 1, n - 1)
    IN  IF name \in DOMAIN innermost
        THEN [res |-> Ok(innermost[name]), scopes |-> sc]
        ELSE LET hit == WalkUp(rest, n - 1, name)
             IN  IF hit.tag = "Ok"
                 THEN [res |-> hit,
                       scopes |-> [sc EXCEPT ![n] = Insert(innermost, name, hit.var)]]
                 ELSE [res |-> Err,
                       scopes |-> [sc EXCEPT ![n] = Insert(innermost, name, 0)]]

\* The hit is cached in every scope above the one that holds it, not only in
\* the innermost.
resolve_caches_all_walked(sc, name) ==
    LET n == Len(sc)
        innermost == sc[n]
        rest == SubSeq(sc, 1, n - 1)
    IN  IF name \in DOMAIN innermost
        THEN [res |-> Ok(innermost[name]), scopes |-> sc]
        ELSE LET hit == WalkUp(rest, n - 1, name)
             IN  IF hit.tag = "Ok"
                 THEN [res |-> hit,
                       scopes |-> [i \in 1..n |->
                                     IF name \in DOMAIN sc[i] THEN sc[i]
                                     ELSE IF \E j \in 1..i : name \in DOMAIN sc[j]
                                          THEN Insert(sc[i], name, hit.var)
                                          ELSE sc[i]]]
                 ELSE [res |-> Err, scopes |-> sc]

\* resolve_local_variable(name) on scope stack sc: the result and the scope
\* stack it leaves behind.
resolve_local_variable(sc, name) ==
    LET n == Len(sc)
        innermost == sc[n]
        rest == SubSeq(sc, 1, n - 1)
    IN  IF name \in DOMAIN innermost
        THEN [res |-> Ok(innermost[name]), scopes |-> sc]
        ELSE LET hit == WalkUp(rest, n - 1, name)
             IN  IF hit.tag = "Ok"
                 THEN [res |-> hit,
                       scopes |-> [sc EXCEPT ![n] = Insert(innermost, name, hit.var)]]
                 ELSE [res |-> Err, scopes |-> sc]

\* A variant of define_variable that pushes the record before looking at the
\* scope, so that a refused declaration still takes up a slot.
define_pushes_first(sc, vs, var) ==
    LET variable == Len(vs)
        n == Len(sc)
    IN  IF var.name \in DOMAIN sc[n]
        THEN [res |-> Err, scopes |-> sc, variables |-> Append(vs, var)]
        ELSE [res |-> Ok(variable),
              scopes |-> [sc EXCEPT ![n] = Insert(sc[n], var.name, variable)],
              variables |-> Append(vs, var)]

\* define_variable(var) on scope stack sc and side table vs. The cast
\* `len() as u32` is the identity below 2^32 entries; MaxVars is far below.
define_variable(sc, vs, var) ==
    LET variable == Len(vs)
        n == Len(sc)
    IN  IF var.name \in DOMAIN sc[n]
        THEN [res |-> Err, scopes |-> sc, variables |-> vs]
        ELSE [res |-> Ok(variable),
              scopes |-> [sc EXCEPT ![n] = Insert(sc[n], var.name, variable)],
              variables |-> Append(vs, var)]

----------------------------------------------------------------------------
(* The reference: a scope chain that records declarations only and walks   *)
(* the whole chain on every lookup.                                        *)

RECURSIVE NaiveLookup(_, _, _)
NaiveLookup(chain, i, name) ==
    IF i = 0 THEN Err
    ELSE IF name \in DOMAIN chain[i] THEN Ok(chain[i][name])
    ELSE NaiveLookup(chain, i - 1, name)

NaiveResolve(chain, name) == NaiveLookup(chain, Len(chain), name)

NaiveDeclare(chain, count, name) ==
    LET n == Len(chain)
    IN  IF name \in DOMAIN chain[n]
        THEN [res |-> Err, chain |-> chain, count |-> count]
        ELSE [res |-> Ok(count),
              chain |-> [chain EXCEPT ![n] = Insert(chain[n], name, count)],
              count |-> count + 1]

----------------------------------------------------------------------------
(* Closures (thunks): the cell, lambda bodies and the force protocol.      *)

\* Deepest nesting of forces explored.
MaxStack == 4

Closures == {"a", "b", "c"}

\* Values a body can evaluate to.
Values == {1, 2}

\* Lambda bodies: a literal, a variable bound to a closure (its value is
\* demanded whenever the body is evaluated), and a conditional on a literal
\* that demands a closure in its `then` branch only.
Lit(v) == [kind |-> "Value", value |-> v]

Var(d) == [kind |-> "Variable", closure |-> d]

IfElse(b, d, v) == [kind |-> "IfElse", cond |-> b, closure |-> d, value |-> v]

Bodies ==
    {Lit(v) : v \in Values} \cup {Var(d) : d \in Closures}
    \cup {IfElse(b, d, v) : b \in BOOLEAN, d \in Closures, v \in Values}

\* Whether evaluating the body demands another closure, and which.
DemandsClosure(body) ==
    \/ body.kind = "Variable"
    \/ body.kind = "IfElse" /\ body.cond

\* ClosureInner::Unevaluated { captures, lambda }
Unevaluated == [state |-> "Unevaluated", value |-> 0, evals |-> 0]

\* The cell while its body is being evaluated.
BeingForced(cell) == [cell EXCEPT !.state = "BeingForced"]

\* ClosureInner::Evaluated(value), counting the evaluation that produced it.
Evaluated(cell, v) ==
    [state |-> "Evaluated", value |-> v, evals |-> cell.evals + 1]

\* A force that re-evaluates whatever state the cell is in.
ForceOutcome_NoMemo(state) ==
    CASE state = "Evaluated" -> "evaluate"
      [] state = "Unevaluated" -> "evaluate"
      [] state = "BeingForced" -> "infinite_recursion"

\* A force that takes a cell being forced for an unevaluated one.
ForceOutcome_NoCycleCheck(state) ==
    CASE state = "Evaluated" -> "stored"
      [] state = "Unevaluated" -> "evaluate"
      [] state = "BeingForced" -> "evaluate"

\* What force does with a cell in the given state.
ForceOutcome(state) ==
    CASE state = "Evaluated" -> "stored"
      [] state = "Unevaluated" -> "evaluate"
      [] state = "BeingForced" -> "infinite_recursion"

NotForced == [closure |-> "", result |-> "none", value |-> 0]

\* The closure engine at rest, as the builder's steps leave it.
NoClosures ==
    /\ lambda = [c \in Closures |-> Lit(1)]
    /\ closures = [c \in Closures |-> Unevaluated]
    /\ stack = << >>
    /\ forced = NotForced

----------------------------------------------------------------------------
(* Paths, the process environment, and the evaluation context and the      *)
(* attribute set before anything has used them.                            *)

\* A PathBuf: whether it has a root, and its components in order.
PathOf(absolute, components) ==
    [absolute |-> absolute, components |-> components]

\* directories::BaseDirs::new(): Some with the home directory, or None.
SomeHome(dir) == [some |-> TRUE, home_dir |-> dir]

NoHome == [some |-> FALSE, home_dir |-> PathOf(FALSE, << >>)]

\* The environment a process can run in: with or without a retrievable home
\* directory, with or without a search path entry that holds the target of
\* the angle-bracket paths of the source.
Envs ==
    [home : {SomeHome(PathOf(TRUE, <<"home", "u">>)), NoHome},
     entry_has_target : BOOLEAN]

\* No eval call has been made on the context yet; `reads` counts the files
\* the call has read, `ran` lists the stages of eval the call has run and
\* `before` is how much had been printed when the call began.
NoCall ==
    [n |-> 0, stage |-> "none", reads |-> 0, source |-> [source |-> "none"],
     search_path |-> PathOf(FALSE, << >>), raw |-> [tag |-> "none"],
     built |-> [tag |-> "none"], result |-> [tag |-> "none"],
     ran |-> << >>, before |-> 0]

\* Arenas::new(), EvalContext::new(config, &arenas), nothing printed.
NoEval ==
    /\ env = [home |-> SomeHome(PathOf(TRUE, <<"home", "u">>)),
              entry_has_target |-> FALSE]
    /\ arena = << >>
    /\ codemap = 0
    /\ call = NoCall
    /\ printed = << >>
    /\ status = "running"

\* BTreeMap::new(): a set without members.
NoSet ==
    /\ members = << >>
    /\ inserted = << >>

\* Nothing has been parsed: no errors reported, extract_error not called.
NoParse ==
    /\ errors = << >>
    /\ extracted = [tag |-> "none"]

\* The process has been started without flags and run has not begun.
NoRun ==
    /\ opts = [verbosity |-> 0, quiet |-> 0]
    /\ logger = [state |-> "none"]

----------------------------------------------------------------------------
(* The builder as a state machine. *)

NoOp == [op |-> "none", name |-> "", res |-> Err, nres |-> Err]

Init ==
    /\ pc = "new_true"
    /\ scopes = <<EmptyScope>>
    /\ variables = << >>
    /\ decls = <<EmptyScope>>
    /\ naive = <<EmptyScope>>
    /\ nvars = 0
    /\ issued = << >>
    /\ last = NoOp
    /\ NoClosures
    /\ NoEval
    /\ NoSet
    /\ NoParse
    /\ NoRun

\* One define_variable call with its bookkeeping; `next` is where control
\* goes on success, `fail` where it goes on Err.
DoDefine(var, next, fail) ==
    LET r == define_variable(scopes, variables, var)
        m == NaiveDeclare(naive, nvars, var.name)
        n == Len(scopes)
    IN  /\ scopes' = r.scopes
        /\ variables' = r.variables
        /\ decls' = IF r.res.tag = "Ok"
                    THEN [decls EXCEPT ![n] = Insert(decls[n], var.name, r.res.var)]
                    ELSE decls
        /\ naive' = m.chain
        /\ nvars' = m.count
        /\ issued' = IF r.res.tag = "Ok"
                     THEN Append(issued, [var |-> r.res.var, name |-> var.name])
                     ELSE issued
        /\ last' = [op |-> "define", name |-> var.name, res |-> r.res, nres |-> m.res]
        /\ pc' = IF r.res.tag = "Ok" THEN next ELSE fail
        /\ UNCHANGED <<cvars, evars, svars, pvars, ovars>>

\* Builder::new: define_variable("true").unwrap()
NewDefineTrue ==
    /\ pc = "new_true"
    /\ DoDefine(VarInfo(ZeroSpan, "true", BoolExpr(TRUE)), "new_false", "panic")

\* A variant of the second call of Builder::new with the first call's name.
NewDefineFalse_SameName ==
    /\ pc = "new_false"
    /\ DoDefine(VarInfo(ZeroSpan, "true", BoolExpr(FALSE)), "ready", "panic")

\* Builder::new: define_variable("false").unwrap()
NewDefineFalse ==
    /\ pc = "new_false"
    /\ DoDefine(VarInfo(ZeroSpan, "false", BoolExpr(FALSE)), "ready", "panic")

\* A declaration made while building: define_variable(var).
Define(name) ==
    /\ pc = "ready"
    /\ Len(variables) < MaxVars
    /\ nvars < MaxVars
    /\ DoDefine(VarInfo(DeclSpan, name, SomeExpr), "ready", "ready")

\* An identifier met while building: resolve_local_variable(name).
Resolve(name) ==
    /\ pc = "ready"
    /\ LET r == resolve_local_variable(scopes, name)
       IN  /\ scopes' = r.scopes
           /\ last' = [op |-> "resolve", name |-> name, res |-> r.res,
                       nres |-> NaiveResolve(naive, name)]
    /\ UNCHANGED <<pc, variables, decls, naive, nvars, issued,
                   cvars, evars, svars, pvars, ovars>>

\* Entering a construct that introduces bindings.
PushScope ==
    /\ pc = "ready"
    /\ Len(scopes) < MaxDepth
    /\ scopes' = Append(scopes, EmptyScope)
    /\ decls' = Append(decls, EmptyScope)
    /\ naive' = Append(naive, EmptyScope)
    /\ last' = [NoOp EXCEPT !.op = "push"]
    /\ UNCHANGED <<pc, variables, nvars, issued, cvars, evars, svars, pvars, ovars>>

\* Leaving it again; the root scope is never popped.
PopScope ==
    /\ pc = "ready"
    /\ Len(scopes) > 1
    /\ scopes' = SubSeq(scopes, 1, Len(scopes) - 1)
    /\ decls' = SubSeq(decls, 1, Len(decls) - 1)
    /\ naive' = SubSeq(naive, 1, Len(naive) - 1)
    /\ last' = [NoOp EXCEPT !.op = "pop"]
    /\ UNCHANGED <<pc, variables, nvars, issued, cvars, evars, svars, pvars, ovars>>

Next ==
    \/ NewDefineTrue
    \/ NewDefineFalse
    \/ \E name \in Names : Define(name)
    \/ \E name \in Names : Resolve(name)
    \/ PushScope
    \/ PopScope

Spec == Init /\ [][Next]_vars

----------------------------------------------------------------------------
(* The closure engine as a state machine: every closure gets some body,    *)
(* and closures are forced in any order, any number of times.              *)

\* The builder before Builder::new has run, left alone by the forcing steps.
InitClosures ==
    /\ pc = "new_true"
    /\ scopes = <<EmptyScope>>
    /\ variables = << >>
    /\ decls = <<EmptyScope>>
    /\ naive = <<EmptyScope>>
    /\ nvars = 0
    /\ issued = << >>
    /\ last = NoOp
    /\ lambda \in [Closures -> Bodies]
    /\ closures = [c \in Closures |-> Unevaluated]
    /\ stack = << >>
    /\ forced = NotForced
    /\ NoEval
    /\ NoSet
    /\ NoParse
    /\ NoRun

Running(c) == [closure |-> c, result |-> "running", value |-> 0]

\* The closure at the top of the stack has its value: store it, and report
\* it if this was the outermost force.
Complete(c, v) ==
    /\ closures' = [closures EXCEPT ![c] = Evaluated(closures[c], v)]
    /\ stack' = SubSeq(stack, 1, Len(stack) - 1)
    /\ forced' = IF Len(stack) = 1
                 THEN [closure |-> c, result |-> "value", value |-> v]
                 ELSE forced

\* force(c) from outside any force, on an evaluated closure: the stored value.
ForceStored(c) ==
    /\ stack = << >>
    /\ ForceOutcome(closures[c].state) = "stored"
    /\ forced' = [closure |-> c, result |-> "stored", value |-> closures[c].value]
    /\ UNCHANGED <<closures, stack, lambda, bvars, evars, svars, pvars, ovars>>

\* force(c) from outside any force, on a closure that has to be evaluated.
ForceBegin(c) ==
    /\ stack = << >>
    /\ ForceOutcome(closures[c].state) = "evaluate"
    /\ closures' = [closures EXCEPT ![c] = BeingForced(closures[c])]
    /\ stack' = <<c>>
    /\ forced' = Running(c)
    /\ UNCHANGED <<lambda, bvars, evars, svars, pvars, ovars>>

\* The body being evaluated needs no closure: it yields its literal.
EvalLiteral ==
    /\ stack # << >>
    /\ LET c == stack[Len(stack)]
       IN  /\ ~DemandsClosure(lambda[c])
           /\ Complete(c, lambda[c].value)
    /\ UNCHANGED <<lambda, bvars, evars, svars, pvars, ovars>>

\* The body demands a closure that is evaluated: the stored value is the
\* body's value.
EvalDemandStored ==
    /\ stack # << >>
    /\ LET c == stack[Len(stack)]
           d == lambda[c].closure
       IN  /\ DemandsClosure(lambda[c])
           /\ ForceOutcome(closures[d].state) = "stored"
           /\ Complete(c, closures[d].value)
    /\ UNCHANGED <<lambda, bvars, evars, svars, pvars, ovars>>

\* The body demands a closure that has to be evaluated first: force it.
EvalDemandForce ==
    /\ stack # << >>
    /\ Len(stack) < MaxStack
    /\ LET c == stack[Len(stack)]
           d == lambda[c].closure
       IN  /\ DemandsClosure(lambda[c])
           /\ ForceOutcome(closures[d].state) = "evaluate"
           /\ closures' = [closures EXCEPT ![d] = BeingForced(closures[d])]
           /\ stack' = Append(stack, d)
    /\ UNCHANGED <<forced, lambda, bvars, evars, svars, pvars, ovars>>

\* The body demands a closure that is being forced: the infinite-recursion
\* error ends every force under way, and none of them stores a value.
EvalDemandCycle ==
    /\ stack # << >>
    /\ LET c == stack[Len(stack)]
           d == lambda[c].closure
       IN  /\ DemandsClosure(lambda[c])
           /\ ForceOutcome(closures[d].state) = "infinite_recursion"
           /\ closures' = [e \in Closures |->
                             IF closures[e].state = "BeingForced"
                             THEN [closures[e] EXCEPT !.state = "Unevaluated"]
                             ELSE closures[e]]
           /\ stack' = << >>
           /\ forced' = [closure |-> stack[1], result |-> "infinite_recursion",
                         value |-> 0]
    /\ UNCHANGED <<lambda, bvars, evars, svars, pvars, ovars>>

NextClosures ==
    \/ \E c \in Closures : ForceStored(c)
    \/ \E c \in Closures : ForceBegin(c)
    \/ EvalLiteral
    \/ EvalDemandStored
    \/ EvalDemandForce
    \/ EvalDemandCycle

SpecClosures == InitClosures /\ [][NextClosures]_vars

----------------------------------------------------------------------------
(* Values, expressions and the raw parse trees they are translated from.   *)

\* Value::Int, Value::Float (by its text), Value::String, Value::Path.
ValueInt(i) == [type |-> "Int", int |-> i]

ValueFloat(f) == [type |-> "Float", float |-> f]

ValueString(s) == [type |-> "String", string |-> s]

ValuePath(p) == [type |-> "Path", path |-> p]

\* Expr::Value, Expr::NixPath, Expr::Variable and Expr::Assert, by reference
\* to arena-allocated nodes.
ExprValue(v) == [expr |-> "Value", value |-> v]

\* An Expr::Value holding the path in the place of the deferred node.
ExprNixPath_Value(path) == [expr |-> "Value", value |-> ValuePath(path)]

ExprNixPath(path) == [expr |-> "NixPath", path |-> path]

ExprVariable(var) == [expr |-> "Variable", var |-> var]

\* An Assert node with its two parts exchanged.
ExprAssert_swapped(assertion, then) ==
    [expr |-> "Assert", assertion |-> then, then |-> assertion]

ExprAssert(assertion, then) ==
    [expr |-> "Assert", assertion |-> assertion, then |-> then]

\* What rnix's to_value() makes of a literal token: one of its values, or a
\* ValueError with the cause the numeric parsers report.
RnixInteger(i) == [tag |-> "Ok", rnix |-> "Integer", integer |-> i]

RnixFloat(f) == [tag |-> "Ok", rnix |-> "Float", float |-> f]

RnixStr(content) == [tag |-> "Ok", rnix |-> "Str", content |-> content]

RnixPath(anchor, path) ==
    [tag |-> "Ok", rnix |-> "Path", anchor |-> anchor, path |-> path]

\* A path literal with Anchor::Uri: its content is kept as text.
RnixUri(content) ==
    [tag |-> "Ok", rnix |-> "Path", anchor |-> "Uri", content |-> content]

ValueError(kind, cause) == [tag |-> "Err", kind |-> kind, cause |-> cause]

\* The literals of the sources explored: one of every kind to_value()
\* returns, and one of every kind it rejects.
PathLiterals ==
    {RnixPath("Absolute", PathOf(TRUE, <<"etc", "nixos">>)),
     RnixPath("Relative", PathOf(FALSE, <<".", "foo">>)),
     RnixPath("Home", PathOf(FALSE, <<"foo">>)),
     RnixPath("Store", PathOf(FALSE, <<"nixpkgs">>)),
     RnixUri("http://x")}

BadLiterals ==
    {ValueError("Float", "invalid float literal"),
     ValueError("Integer", "number too large to fit in target type"),
     ValueError("String", ""),
     ValueError("StorePath", ""),
     ValueError("Unknown", "")}

Literals ==
    {RnixInteger(42), RnixFloat("1.5"), RnixStr("s")}
    \cup PathLiterals \cup BadLiterals

\* parser::RawExpr: a literal, an identifier, `assert condition; body`, and
\* the kinds the builder does not look into, kept with their source text.
RawValue(v) == [raw |-> "Value", v |-> v]

RawIdent(ident) == [raw |-> "Ident", ident |-> ident]

RawAssert(condition, body) ==
    [raw |-> "Assert", condition |-> condition, body |-> body]

RawOther(kind, text) == [raw |-> kind, text |-> text]

OtherExprs ==
    {RawOther("IndexSet", "{ a = 1; }.a"),
     RawOther("IndexSet", "{ a = 1; }.b"),
     RawOther("OrDefault", "{ a = 1; }.b or 9"),
     RawOther("OrDefault", "{ a = 1; }.a or 9"),
     RawOther("Lambda", "x: y: [ x true ]"),
     RawOther("Set", "{ b = 2; a = 1; }"),
     RawOther("Apply", "f 1"),
     RawOther("IfElse", "if true then 1 else 2"),
     RawOther("LetIn", "let a = 1; in a"),
     RawOther("List", "[ 1 2 ]")}

LeafExprs ==
    {RawValue(v) : v \in Literals} \cup {RawIdent(n) : n \in Names}
    \cup OtherExprs

\* The operands of the asserts explored: literals that convert and that do
\* not, identifiers that resolve and that do not, and an unsupported kind.
Operands ==
    {RawValue(RnixInteger(42)),
     RawValue(RnixPath("Relative", PathOf(FALSE, <<".", "foo">>))),
     RawValue(RnixPath("Store", PathOf(FALSE, <<"nixpkgs">>))),
     RawValue(ValueError("Integer", "number too large to fit in target type")),
     RawValue(ValueError("String", "")),
     RawIdent("true"), RawIdent("false"), RawIdent("x"),
     RawOther("List", "[ 1 2 ]")}

NestedOperands ==
    {RawIdent("true"), RawIdent("x"), RawValue(RnixInteger(42)),
     RawValue(ValueError("Unknown", ""))}

RawExprs ==
    LeafExprs
    \cup {RawAssert(c, b) : c \in Operands, b \in Operands}
    \cup {RawAssert(RawAssert(c, b), RawValue(RnixInteger(42))) :
              c \in NestedOperands, b \in NestedOperands}
    \cup {RawAssert(RawIdent("true"), RawAssert(c, b)) :
              c \in NestedOperands, b \in NestedOperands}

\* The span of a node: its position in the tree, the root being << >>, the
\* condition of an assert 1 and its body 2.
RootSpan == << >>

----------------------------------------------------------------------------
(* PathBuf::pop and PathBuf::push. *)

\* pop(): drop the last component; a path without one is left as it is.
pop(path) ==
    IF path.components = << >> THEN path
    ELSE [path EXCEPT !.components = SubSeq(@, 1, Len(@) - 1)]

\* A push that keeps only what is pushed.
push_forgets_base(base, path) == path

\* push(path): an absolute path replaces the base, a relative one extends it.
push(base, path) ==
    IF path.absolute THEN path
    ELSE [base EXCEPT !.components = @ \o path.components]

----------------------------------------------------------------------------
(* Builder::new, Builder::translate_expr and Ast::build. The builder is    *)
(* threaded through the translation: its scopes, its variables, the search *)
(* path and home directory it reads, and what it has allocated so far.     *)

\* arenas.alloc(..) and arenas.alloc_str(..): one more item in the arenas.
Alloc(b, item) == [b EXCEPT !.allocs = Append(@, item)]

TranslateOk(b, expr) == [tag |-> "Ok", builder |-> b, expr |-> expr]

\* An error placed at the root of the source whatever node it is about.
error_at_root(b, span, message) ==
    [tag |-> "Err", builder |-> b,
     error |-> [span |-> RootSpan, message |-> message]]

\* Err(Error::at(file, node, message))
ErrorAt(b, span, message) ==
    [tag |-> "Err", builder |-> b,
     error |-> [span |-> span, message |-> message]]

\* unimplemented!(), unwrap() and expect() when they panic.
Panic(b, message) == [tag |-> "Panic", builder |-> b, message |-> message]

\* The message translate_expr gives a ValueError.
ValueErrorMessage(e) ==
    CASE e.kind = "Float" -> <<"invalid float: ", e.cause>>
      [] e.kind = "Integer" -> <<"invalid integer: ", e.cause>>
      [] e.kind = "String" -> <<"invalid string">>
      [] e.kind = "StorePath" -> <<"invalid store path">>
      [] e.kind = "Unknown" -> <<"invalid literal">>

\* Builder::new: the root scope with `true` and `false` defined, their
\* values and expressions allocated.
BuilderNew(search_path, home) ==
    LET t == define_variable(<<EmptyScope>>, << >>,
                             VarInfo(ZeroSpan, "true", BoolExpr(TRUE)))
        f == define_variable(t.scopes, t.variables,
                             VarInfo(ZeroSpan, "false", BoolExpr(FALSE)))
    IN  [scopes |-> f.scopes, variables |-> f.variables,
         search_path |-> search_path, home |-> home,
         allocs |-> <<"Value", "Expr", "Value", "Expr">>]

\* Ok(arenas.alloc(Expr::Value(arenas.alloc(value))))
AllocValue(b, value) ==
    TranslateOk(Alloc(Alloc(b, "Value"), "Expr"), ExprValue(value))

\* The RawExpr::Value arm once to_value() has succeeded.
TranslateValue(b, v) ==
    CASE v.rnix = "Float" -> AllocValue(b, ValueFloat(v.float))
      [] v.rnix = "Integer" -> AllocValue(b, ValueInt(v.integer))
      [] v.rnix = "Str" -> AllocValue(b, ValueString(v.content))
      [] v.rnix = "Path" /\ v.anchor = "Uri" ->
            AllocValue(b, ValueString(v.content))
      [] v.rnix = "Path" /\ v.anchor = "Absolute" ->
            AllocValue(b, ValuePath(v.path))
      [] v.rnix = "Path" /\ v.anchor = "Relative" ->
            AllocValue(b, ValuePath(push(b.search_path, v.path)))
      [] v.rnix = "Path" /\ v.anchor = "Home" ->
            IF b.home.some
            THEN AllocValue(b, ValuePath(push(b.home.home_dir, v.path)))
            ELSE Panic(b, "failed to retrieve home path")
      [] v.rnix = "Path" /\ v.anchor = "Store" ->
            TranslateOk(Alloc(Alloc(b, "str"), "Expr"), ExprNixPath(v.path))

RECURSIVE translate_expr(_, _, _)
translate_expr(b, expr, span) ==
    CASE expr.raw = "Value" ->
            IF expr.v.tag = "Err"
            THEN ErrorAt(b, span, ValueErrorMessage(expr.v))
            ELSE TranslateValue(b, expr.v)
      [] expr.raw = "Assert" ->
            LET cond == translate_expr(b, expr.condition, Append(span, 1))
            IN  IF cond.tag # "Ok" THEN cond
                ELSE LET body == translate_expr(cond.builder, expr.body,
                                                Append(span, 2))
                     IN  IF body.tag # "Ok" THEN body
                         ELSE TranslateOk(Alloc(body.builder, "Expr"),
                                          ExprAssert(cond.expr, body.expr))
      [] expr.raw = "Ident" ->
            LET r == resolve_local_variable(b.scopes, expr.ident)
                b1 == [b EXCEPT !.scopes = r.scopes]
            IN  IF r.res.tag = "Err"
                THEN ErrorAt(b1, span, <<"cannot resolve variable">>)
                ELSE TranslateOk(Alloc(b1, "Expr"), ExprVariable(r.res.var))
      [] OTHER -> Panic(b, "not yet implemented")

\* Ast::build: a new builder, then the translation of the root.
AstBuild(search_path, home, root) ==
    translate_expr(BuilderNew(search_path, home), root, RootSpan)

----------------------------------------------------------------------------
(* EvalContext::eval, stage by stage, and main's handling of its result.   *)

\* Most eval calls made on one evaluation context.
MaxEvals == 2

\* eval::Source: a file to read, or source text given with its search path;
\* `text` is what parser::parse makes of the text.
SourceFile(path, readable, text) ==
    [source |-> "File", path |-> path, readable |-> readable, text |-> text]

SourceOther(search_path, text) ==
    [source |-> "Other", search_path |-> search_path, text |-> text]

ParseOk(raw) == [tag |-> "Ok", raw |-> raw]

ParseErr == [tag |-> "Err",
             error |-> [span |-> <<0>>, message |-> <<"unexpected end of input">>]]

Texts == {ParseOk(raw) : raw \in RawExprs} \cup {ParseErr}

FilePaths ==
    {PathOf(TRUE, <<"proj", "pkg", "default.nix">>),
     PathOf(FALSE, <<"default.nix">>)}

WorkDir == PathOf(TRUE, <<"work">>)

\* Every text as a file with an absolute path; the literals also as a file
\* with a relative path and as text given on the command line; files that
\* cannot be read.
Sources ==
    {SourceFile(PathOf(TRUE, <<"proj", "pkg", "default.nix">>), TRUE, t) :
         t \in Texts}
    \cup {SourceFile(PathOf(FALSE, <<"default.nix">>), TRUE,
                     ParseOk(RawValue(v))) : v \in Literals}
    \cup {SourceOther(WorkDir, ParseOk(RawValue(v))) : v \in Literals}
    \cup {SourceOther(WorkDir, ParseErr)}
    \cup {SourceFile(p, FALSE, ParseErr) : p \in FilePaths}

\* The errors: eval::Error::Io, utils::ErrorAlreadyPrinted, and
\* eval::Error::AlreadyPrinted, each a type of its own with its Display.
IoError ==
    [type |-> "eval::Error", variant |-> "Io", display |-> "i/o error: {}"]

ErrorAlreadyPrinted ==
    [type |-> "utils::ErrorAlreadyPrinted", variant |-> "",
     display |-> "(this should not be printed)"]

\* impl From<utils::ErrorAlreadyPrinted> for eval::Error
FromErrorAlreadyPrinted(e) ==
    [type |-> "eval::Error", variant |-> "AlreadyPrinted",
     display |-> "(this should not be printed)"]

\* failure::Error::downcast_ref::<T>(): Some exactly when the wrapped error
\* is of type T.
downcast_ref(e, T) == [some |-> e.type = T]

\* The files assimilate_source reads: fs::read_to_string(path) for a file.
fs_reads(source) == IF source.source = "File" THEN 1 ELSE 0

\* assimilate_source: the search path, or the i/o error of reading the file.
assimilate_source(source) ==
    IF source.source = "File"
    THEN IF source.readable
         THEN [tag |-> "Ok", search_path |-> pop(source.path)]
         ELSE [tag |-> "Err", error |-> IoError]
    ELSE [tag |-> "Ok", search_path |-> source.search_path]

\* The same arm of eval_expr returning null for every literal.
eval_expr_null(expr) ==
    IF expr.expr = "Value"
    THEN [tag |-> "Ok", value |-> [type |-> "Null"]]
    ELSE [tag |-> "Panic", message |-> "not yet implemented"]

\* eval_expr: a clone of a literal's value; unimplemented!() for the rest.
eval_expr(expr) ==
    IF expr.expr = "Value"
    THEN [tag |-> "Ok", value |-> expr.value]
    ELSE [tag |-> "Panic", message |-> "not yet implemented"]

\* Arenas that start empty whenever a call allocates.
ArenaAlloc_Fresh(ar, n, allocs) ==
    [i \in 1..Len(allocs) |-> [call |-> n]]

\* What a build leaves in the arenas the context was created with: every
\* allocation of call n, after those already there.
ArenaAlloc(ar, n, allocs) ==
    ar \o [i \in 1..Len(allocs) |-> [call |-> n]]

\* print_diagnostic on an Err: emitter.emit_diagnostics(&[e.into()]).
Diagnostic == [stream |-> "stderr", what |-> "diagnostic"]

\* A print_diagnostic that emits the diagnostic twice.
print_diagnostic_twice(out) == Append(Append(out, Diagnostic), Diagnostic)

\* ResultExt::print_diagnostic on an Err: one diagnostic emitted.
print_diagnostic(out) == Append(out, Diagnostic)

\* eprintln!("error: {}", e)
ErrorLine == [stream |-> "stderr", what |-> "error line"]

\* println!("{}", value)
ValueLine == [stream |-> "stdout", what |-> "value"]

\* The message of a panic.
PanicLine == [stream |-> "stderr", what |-> "panic"]

EvalOk(value) == [tag |-> "Ok", value |-> value]

EvalErr(e) == [tag |-> "Err", error |-> e]

\* The processes explored: any environment, a fresh context.
InitEval ==
    /\ pc = "new_true"
    /\ scopes = <<EmptyScope>>
    /\ variables = << >>
    /\ decls = <<EmptyScope>>
    /\ naive = <<EmptyScope>>
    /\ nvars = 0
    /\ issued = << >>
    /\ last = NoOp
    /\ NoClosures
    /\ env \in Envs
    /\ arena = << >>
    /\ codemap = 0
    /\ call = NoCall
    /\ printed = << >>
    /\ status = "running"
    /\ NoSet
    /\ NoParse
    /\ NoRun

\* eval(source), first stage: assimilate_source(source)?
EvalAssimilate(source) ==
    /\ status = "running"
    /\ call.stage \in {"none", "returned"}
    /\ call.n < MaxEvals
    /\ LET r == assimilate_source(source)
       IN  IF r.tag = "Err"
           THEN /\ call' = [NoCall EXCEPT !.n = call.n + 1,
                                          !.stage = "returned",
                                          !.ran = <<"read">>,
                                          !.before = Len(printed),
                                          !.reads = 1,
                                          !.source = source,
                                          !.result = EvalErr(r.error)]
                /\ UNCHANGED codemap
           ELSE /\ call' = [NoCall EXCEPT !.n = call.n + 1,
                                          !.stage = "read",
                                          !.ran = <<"read">>,
                                          !.before = Len(printed),
                                          !.reads = fs_reads(source),
                                          !.source = source,
                                          !.search_path = r.search_path]
                /\ codemap' = codemap + 1
    /\ UNCHANGED <<env, arena, printed, status, bvars, cvars, svars, pvars, ovars>>

\* Second stage: parser::parse(&file).print_diagnostic(self)?
EvalParse ==
    /\ status = "running"
    /\ call.stage = "read"
    /\ LET text == call.source.text
       IN  IF text.tag = "Err"
           THEN /\ printed' = print_diagnostic(printed)
                /\ call' = [call EXCEPT
                              !.stage = "returned",
                              !.ran = Append(@, "parse"),
                              !.raw = text,
                              !.result = EvalErr(FromErrorAlreadyPrinted(
                                                     ErrorAlreadyPrinted))]
           ELSE /\ call' = [call EXCEPT !.stage = "parsed",
                                        !.ran = Append(@, "parse"),
                                        !.raw = text]
                /\ UNCHANGED printed
    /\ UNCHANGED <<env, arena, codemap, status, bvars, cvars, svars, pvars, ovars>>

\* Third stage: Ast::build(&self.arenas, file, &search_path, raw_ast)
\* .print_diagnostic(self)?
EvalBuild ==
    /\ status = "running"
    /\ call.stage = "parsed"
    /\ LET r == AstBuild(call.search_path, env.home, call.raw.raw)
       IN  /\ arena' = ArenaAlloc(arena, call.n, r.builder.allocs)
           /\ CASE r.tag = "Ok" ->
                     /\ call' = [call EXCEPT !.stage = "built",
                                             !.ran = Append(@, "build"),
                                             !.built = r]
                     /\ UNCHANGED <<printed, status>>
                [] r.tag = "Err" ->
                     /\ printed' = print_diagnostic(printed)
                     /\ call' = [call EXCEPT
                                   !.stage = "returned",
                                   !.ran = Append(@, "build"),
                                   !.built = r,
                                   !.result = EvalErr(FromErrorAlreadyPrinted(
                                                          ErrorAlreadyPrinted))]
                     /\ UNCHANGED status
                [] r.tag = "Panic" ->
                     /\ printed' = Append(printed, PanicLine)
                     /\ call' = [call EXCEPT !.stage = "panicked",
                                             !.ran = Append(@, "build"),
                                             !.built = r]
                     /\ status' = "panicked"
    /\ UNCHANGED <<env, codemap, bvars, cvars, svars, pvars, ovars>>

\* Last stage: self.eval_expr(ast.root())
EvalRoot ==
    /\ status = "running"
    /\ call.stage = "built"
    /\ LET r == eval_expr(call.built.expr)
       IN  IF r.tag = "Ok"
           THEN /\ call' = [call EXCEPT !.stage = "returned",
                                        !.ran = Append(@, "eval"),
                                        !.result = EvalOk(r.value)]
                /\ UNCHANGED <<printed, status>>
           ELSE /\ printed' = Append(printed, PanicLine)
                /\ call' = [call EXCEPT !.stage = "panicked",
                                        !.ran = Append(@, "eval"),
                                        !.result = r]
                /\ status' = "panicked"
    /\ UNCHANGED <<env, arena, codemap, bvars, cvars, svars, pvars, ovars>>

\* main, after run's one eval call has returned: print the value, or the
\* error unless it downcasts to utils::ErrorAlreadyPrinted, and exit.
MainExit ==
    /\ status = "running"
    /\ call.stage = "returned"
    /\ call.n = 1
    /\ IF call.result.tag = "Ok"
       THEN /\ printed' = Append(printed, ValueLine)
            /\ status' = "exit 0"
       ELSE /\ printed' =
                 IF ~downcast_ref(call.result.error,
                                  "utils::ErrorAlreadyPrinted").some
                 THEN Append(printed, ErrorLine)
                 ELSE printed
            /\ status' = "exit 1"
    /\ UNCHANGED <<env, arena, codemap, call, bvars, cvars, svars, pvars, ovars>>

NextEval ==
    \/ \E source \in Sources : EvalAssimilate(source)
    \/ EvalParse
    \/ EvalBuild
    \/ EvalRoot
    \/ MainExit

SpecEval == InitEval /\ [][NextEval]_vars

----------------------------------------------------------------------------
(* Attribute sets: Value::Set(BTreeMap<String, &Expr>). *)

\* Most insertions into one set explored.
MaxInserts == 3

\* Attribute names: the strings of one or two of the bytes `a` and `b`.
KeyBytes == {97, 98}

Keys == {<<x>> : x \in KeyBytes} \cup {<<x, y>> : x \in KeyBytes, y \in KeyBytes}

\* The expressions members are bound to, by number.
Members == {1, 2}

\* Ord for String: byte-wise lexicographic order, a proper prefix first.
RECURSIVE StringLess(_, _)
StringLess(s, t) ==
    IF t = << >> THEN FALSE
    ELSE IF s = << >> THEN TRUE
    ELSE IF Head(s) # Head(t) THEN Head(s) < Head(t)
    ELSE StringLess(Tail(s), Tail(t))

\* A map that keeps its entries in the order they were pushed.
vec_push(map, key, value) == Append(map, [key |-> key, value |-> value])

\* BTreeMap::insert: the entry takes its place in key order, replacing the
\* entry of an equal key.
btree_insert(map, key, value) ==
    SelectSeq(map, LAMBDA e : StringLess(e.key, key))
    \o <<[key |-> key, value |-> value]>>
    \o SelectSeq(map, LAMBDA e : StringLess(key, e.key))

\* impl Display for Value, Value::Set: debug_map().entries(map.iter()), the
\* entries as `key: value` in the order iter() yields them.
DisplaySet(map) == [i \in DOMAIN map |-> <<map[i].key, ": ", map[i].value>>]

InitSets ==
    /\ pc = "new_true"
    /\ scopes = <<EmptyScope>>
    /\ variables = << >>
    /\ decls = <<EmptyScope>>
    /\ naive = <<EmptyScope>>
    /\ nvars = 0
    /\ issued = << >>
    /\ last = NoOp
    /\ NoClosures
    /\ NoEval
    /\ NoSet
    /\ NoParse
    /\ NoRun

\* One member added to the set.
SetInsert(key, value) ==
    /\ Len(inserted) < MaxInserts
    /\ members' = btree_insert(members, key, value)
    /\ inserted' = Append(inserted, key)
    /\ UNCHANGED <<bvars, cvars, evars, pvars, ovars>>

NextSets == \E key \in Keys, value \in Members : SetInsert(key, value)

SpecSets == InitSets /\ [][NextSets]_vars

----------------------------------------------------------------------------
(* parser::extract_error: the parse error to report. *)

\* Most errors rnix reports for one source.
MaxErrors == 3

\* The length of the source text: source.span.len().
SourceLen == 3

\* rnix's ParseError: Unexpected(node), the node given by its range in the
\* source, UnexpectedEOFWanted(token) and UnexpectedEOF.
Unexpected(node) == [error |-> "Unexpected", node |-> node]

UnexpectedEOFWanted(token) == [error |-> "UnexpectedEOFWanted", token |-> token]

UnexpectedEOF == [error |-> "UnexpectedEOF"]

Range(start, end) == [start |-> start, end |-> end]

\* The errors explored: unexpected nodes that are empty and that are not,
\* at different places, missing tokens, and the bare end of input.
ParseErrors ==
    {Unexpected(Range(0, 1)), Unexpected(Range(2, 3)),
     Unexpected(Range(1, 1)), Unexpected(Range(3, 3)),
     UnexpectedEOFWanted("in"), UnexpectedEOFWanted("then"),
     UnexpectedEOF}

\* fn rank_error
rank_error(e) ==
    CASE e.error = "Unexpected" ->
            IF e.node.start = e.node.end THEN 1 ELSE 2
      [] e.error = "UnexpectedEOFWanted" -> 1
      [] e.error = "UnexpectedEOF" -> 0

\* One step of a stable sort: e goes behind every element whose key is not
\* greater than its own.
InsertByKey(sorted, e) ==
    SelectSeq(sorted, LAMBDA x : rank_error(x) <= rank_error(e))
    \o <<e>>
    \o SelectSeq(sorted, LAMBDA x : rank_error(x) > rank_error(e))

\* errors.sort_by_key(rank_error): ascending by rank, equal ranks in their
\* original order.
RECURSIVE sort_by_key(_)
sort_by_key(v) ==
    IF v = << >> THEN << >>
    ELSE InsertByKey(sort_by_key(SubSeq(v, 1, Len(v) - 1)), v[Len(v)])

\* A pop that takes the first element.
vec_pop_front(v) == v[1]

\* errors.pop().unwrap(): the last element.
vec_pop(v) == v[Len(v)]

\* fn error_fmt
error_fmt(e) ==
    CASE e.error = "Unexpected" ->
            [fmt |-> "unexpected input near {}", node |-> e.node]
      [] e.error = "UnexpectedEOF" ->
            [fmt |-> "unexpected end of input"]
      [] e.error = "UnexpectedEOFWanted" ->
            [fmt |-> "unexpected end of input (expected {})", token |-> e.token]

\* fn error_span
error_span(e) ==
    IF e.error = "Unexpected" THEN Range(e.node.start, e.node.end)
    ELSE Range(SourceLen, SourceLen)

\* Error::from_inner, with the ParseError it was made from.
from_inner(e) ==
    [span |-> error_span(e), message |-> error_fmt(e), inner |-> e]

\* fn extract_error
extract_error(errs) ==
    IF errs = << >> THEN [tag |-> "Ok"]
    ELSE [tag |-> "Err", error |-> from_inner(vec_pop(sort_by_key(errs)))]

\* rnix has parsed some source and reported any errors, in any order.
InitParse ==
    /\ pc = "new_true"
    /\ scopes = <<EmptyScope>>
    /\ variables = << >>
    /\ decls = <<EmptyScope>>
    /\ naive = <<EmptyScope>>
    /\ nvars = 0
    /\ issued = << >>
    /\ last = NoOp
    /\ NoClosures
    /\ NoEval
    /\ NoSet
    /\ errors \in UNION {[1..n -> ParseErrors] : n \in 0..MaxErrors}
    /\ extracted = [tag |-> "none"]
    /\ NoRun

\* parse_impl: extract_error(expr, ast.errors())
ExtractError ==
    /\ extracted.tag = "none"
    /\ extracted' = extract_error(errors)
    /\ UNCHANGED <<errors, bvars, cvars, evars, svars, ovars>>

NextParse == ExtractError

SpecParse == InitParse /\ [][NextParse]_vars

----------------------------------------------------------------------------
(* main.rs, run: the log level chosen from the counts of -v and -q. *)

\* The largest u8: Opts.verbosity and Opts.quiet are u8 counts.
U8Max == 255

\* u8 subtraction and addition: the wrapped value, and whether it wrapped
\* (a panic in a build with overflow checks).
sub_u8(a, b) ==
    [value |-> (a - b + U8Max + 1) % (U8Max + 1), overflow |-> a < b]

add_u8(a, b) ==
    [value |-> (a + b) % (U8Max + 1), overflow |-> a + b > U8Max]

\* A minimum that returns its first argument.
cmp_min_uncapped(a, b) == a

\* cmp::min
cmp_min(a, b) == IF b < a THEN b ELSE a

\* match level { 0 => Off, .., 5 => Trace, _ => unreachable!() }
LevelFilter(level) ==
    CASE level = 0 -> "Off"
      [] level = 1 -> "Error"
      [] level = 2 -> "Warn"
      [] level = 3 -> "Info"
      [] level = 4 -> "Debug"
      [] level = 5 -> "Trace"
      [] OTHER -> "unreachable"

\* run, up to the initialisation of the logger.
run(o) ==
    IF o.verbosity > 0 /\ o.quiet > 0
    THEN [state |-> "rejected",
          message |-> "cannot specify -v and -q at the same time"]
    ELSE LET verbosity == cmp_min(o.verbosity, 2)
             quiet == cmp_min(o.quiet, 3)
             difference == sub_u8(3, quiet)
             level == add_u8(difference.value, verbosity)
             filter == LevelFilter(level.value)
         IN  IF filter = "unreachable"
             THEN [state |-> "panicked", level |-> level.value,
                   overflow |-> difference.overflow \/ level.overflow]
             ELSE [state |-> "init", level |-> level.value,
                   filter |-> filter,
                   overflow |-> difference.overflow \/ level.overflow]

\* The command line has been parsed: any count of -v and of -q.
InitRun ==
    /\ pc = "new_true"
    /\ scopes = <<EmptyScope>>
    /\ variables = << >>
    /\ decls = <<EmptyScope>>
    /\ naive = <<EmptyScope>>
    /\ nvars = 0
    /\ issued = << >>
    /\ last = NoOp
    /\ NoClosures
    /\ NoEval
    /\ NoSet
    /\ NoParse
    /\ opts \in [verbosity : 0..U8Max, quiet : 0..U8Max]
    /\ logger = [state |-> "none"]

\* main: run(opts)
Run ==
    /\ logger.state = "none"
    /\ logger' = run(opts)
    /\ UNCHANGED <<opts, bvars, cvars, evars, svars, pvars>>

NextRun == Run

SpecRun == InitRun /\ [][NextRun]_vars

----------------------------------------------------------------------------
(* Properties of the scope stack. *)

Top == Len(scopes)

\* The step just taken was resolve_local_variable(last'.name).
Resolved == last'.op = "resolve"

\* The step just taken was define_variable of last'.name.
Defined == last'.op = "define"

\* Scopes of stack sc that have an entry for name.
Holders(sc, name) == {i \in 1..Len(sc) : name \in DOMAIN sc[i]}

SetMax(S) == CHOOSE m \in S : \A k \in S : k <= m

\* The entry for name in the innermost scope that has one.
NearestEntry(sc, name) ==
    IF Holders(sc, name) = {} THEN Err
    ELSE Ok(sc[SetMax(Holders(sc, name))][name])

\* C1: resolve(name) returns the entry of the innermost scope when it has
\* one, otherwise the entry of the nearest enclosing scope that has one; the
\* result is the nearest declaration of name on the stack, so a declaration
\* in the current scope wins over an outer one.
C1_ResolveNearest ==
    [][Resolved =>
        /\ last'.res = NearestEntry(scopes, last'.name)
        /\ last'.res = NearestEntry(decls, last'.name)
        /\ last'.name \in DOMAIN decls[Top] =>
               last'.res = Ok(decls[Top][last'.name])]_vars

\* C1 witness: from the third scope, x declared in both enclosing scopes and
\* not in the third resolves to the declaration of the second.
C1_Witness ==
    /\ last.op = "resolve"
    /\ Len(scopes) = 3
    /\ last.name \in DOMAIN decls[1]
    /\ last.name \in DOMAIN decls[2]
    /\ last.name \notin DOMAIN decls[3]
    /\ decls[1][last.name] # decls[2][last.name]
    /\ last.res = Ok(decls[2][last.name])

\* C2: in every state the builder can be in, resolve(name) followed at once
\* by resolve(name) returns the same result twice, and the second call
\* leaves the scope stack as the first call left it.
C2_ResolveTwice ==
    pc = "ready" =>
        \A name \in Names :
            LET first == resolve_local_variable(scopes, name)
                second == resolve_local_variable(first.scopes, name)
            IN  /\ second.res = first.res
                /\ second.scopes = first.scopes

\* C2 witness: a name declared only in an outer scope has been resolved from
\* an inner scope, which now holds the cache entry the second call reads.
C2_Witness ==
    /\ last.op = "resolve"
    /\ last.res.tag = "Ok"
    /\ Len(scopes) >= 2
    /\ last.name \notin DOMAIN decls[Top]
    /\ last.name \in DOMAIN scopes[Top]
    /\ scopes[Top][last.name] = last.res.var

\* C3: the caching scope stack and the reference chain without caching give
\* the same outcome and the same Variable for every declare and resolve.
C3_SameAsNaive ==
    last.op \in {"define", "resolve"} => last.res = last.nres

\* C4: declare(name) fails exactly when name has already been declared in
\* the current innermost scope, and after a successful declare the scope
\* resolves name to the new Variable.
C4_RedeclarationOnly ==
    [][Defined =>
        /\ (last'.res = Err) <=> (last'.name \in DOMAIN decls[Top])
        /\ last'.res.tag = "Ok" =>
               resolve_local_variable(scopes', last'.name).res = last'.res]_vars

\* C5: the k-th successful declare returns id k and its record is entry k of
\* the side table, whose length is the number of successful declares; every
\* entry of every scope is an id of the table; a failed declare changes
\* neither the table nor any scope.
C5_DenseIds ==
    [][/\ Len(variables') = Len(issued')
       /\ \A k \in 1..Len(issued') :
              /\ issued'[k].var = k - 1
              /\ variables'[k].name = issued'[k].name
       /\ \A i \in 1..Len(scopes') : \A n \in DOMAIN scopes'[i] :
              scopes'[i][n] \in 0..(Len(variables') - 1)
       /\ \A i \in 1..Len(decls') : \A j \in 1..Len(decls') :
              \A n \in DOMAIN decls'[i] : \A m \in DOMAIN decls'[j] :
                  decls'[i][n] = decls'[j][m] => (i = j /\ n = m)
       /\ (Defined /\ last'.res = Err) =>
              (variables' = variables /\ scopes' = scopes)
       /\ (Defined /\ last'.res.tag = "Ok") =>
              (last'.res.var = Len(variables) /\ Len(variables') = Len(variables) + 1)
      ]_vars

\* C5 witness: a declare was refused after the third successful declare,
\* which got id 2.
C5_Witness ==
    /\ last.op = "define"
    /\ last.res = Err
    /\ Len(variables) = 3
    /\ issued[3].var = 2

\* C6: resolve(name) of a name with an entry in no scope fails, and adds no
\* entry: scopes and side table are as they were.
C6_UnresolvedNoCache ==
    [][(Resolved /\ Holders(scopes, last'.name) = {}) =>
        /\ last'.res = Err
        /\ scopes' = scopes
        /\ variables' = variables]_vars

\* C6 witness: a resolve from a nested scope failed.
C6_Witness ==
    /\ last.op = "resolve"
    /\ last.res = Err
    /\ Len(scopes) >= 2
    /\ Holders(scopes, last.name) = {}

\* C7: a successful resolve changes nothing but the innermost scope, and
\* that only by adding the entry name -> result where there was none; it
\* returns an id the table already has and leaves the table alone.
C7_ResolveFrame ==
    [][(Resolved /\ last'.res.tag = "Ok") =>
        /\ variables' = variables
        /\ last'.res.var \in 0..(Len(variables) - 1)
        /\ Len(scopes') = Len(scopes)
        /\ \A i \in 1..(Top - 1) : scopes'[i] = scopes[i]
        /\ \A n \in DOMAIN scopes[Top] :
               n \in DOMAIN scopes'[Top] /\ scopes'[Top][n] = scopes[Top][n]
        /\ DOMAIN scopes'[Top] \subseteq DOMAIN scopes[Top] \cup {last'.name}
        /\ scopes'[Top][last'.name] = last'.res.var]_vars

\* C7 witness: a resolve from the third scope found its name two scopes out
\* and cached it in the third scope only.
C7_Witness ==
    /\ last.op = "resolve"
    /\ last.res.tag = "Ok"
    /\ Len(scopes) = 3
    /\ last.name \in DOMAIN scopes[1]
    /\ last.name \notin DOMAIN scopes[2]
    /\ last.name \notin DOMAIN decls[3]
    /\ scopes[3][last.name] = scopes[1][last.name]

Builtins == {"true", "false"}

\* The Variable Builder::new gives a built-in.
BuiltinVar(name) == IF name = "true" THEN 0 ELSE 1

\* C8: Builder::new does not panic; when it returns, the only scope holds
\* exactly `true` and `false`, bound to Bool(true) and Bool(false) with a
\* zero-length span; and `true` or `false` resolves to the built-in from
\* every scope stack in which no scope above the root declares it.
C8_Builtins ==
    [][/\ pc' # "panic"
       /\ (pc = "new_false" /\ pc' = "ready") =>
              /\ scopes' = <<("true" :> 0) @@ ("false" :> 1)>>
              /\ variables' = <<VarInfo(ZeroSpan, "true", BoolExpr(TRUE)),
                                VarInfo(ZeroSpan, "false", BoolExpr(FALSE))>>
       /\ (Resolved /\ last'.name \in Builtins
             /\ \A i \in 2..Len(decls) : last'.name \notin DOMAIN decls[i]) =>
              /\ last'.res = Ok(BuiltinVar(last'.name))
              /\ variables[last'.res.var + 1] =
                     VarInfo(ZeroSpan, last'.name, BoolExpr(last'.name = "true"))
      ]_vars

\* C8 witness: `true` resolved to the built-in from the third scope while
\* `false` is shadowed there.
C8_Witness ==
    /\ last.op = "resolve"
    /\ last.name = "true"
    /\ last.res = Ok(0)
    /\ Len(scopes) = 3
    /\ "false" \in DOMAIN decls[2]

----------------------------------------------------------------------------
(* Properties of forcing. *)

\* The step just taken was a force, from outside any force, of a closure
\* whose value is not computed by the step: nothing is on the stack before
\* or after it.
ForcedAtRest == stack = << >> /\ stack' = << >>

RECURSIVE Terminates(_, _)
Terminates(c, n) ==
    IF ~DemandsClosure(lambda[c]) THEN TRUE
    ELSE IF n = 0 THEN FALSE
    ELSE Terminates(lambda[c].closure, n - 1)

\* The step just taken ended the outermost force.
ForceEnded == stack # << >> /\ stack' = << >>

----------------------------------------------------------------------------
(* Properties of the evaluation pipeline. *)

\* The eval call in progress has been through Ast::build.
Built == call.built.tag # "none"

\* The eval call has ended with the AST built: eval_expr ran on its root.
RootEvaluated ==
    /\ call.stage \in {"returned", "panicked"}
    /\ call.built.tag = "Ok"

\* The value an operand of an assert stands for: a literal's value, or the
\* value the variable table binds a built-in to.
OperandValue(e) ==
    IF e.expr = "Value" THEN e.value
    ELSE call.built.builder.variables[e.var + 1].value.value

TypeError == [type |-> "eval::Error", variant |-> "Type", display |-> "type error"]

AssertionError ==
    [type |-> "eval::Error", variant |-> "Assertion", display |-> "assertion failed"]

\* What evaluating Assert{assertion, then} is to return.
AssertOutcome(e) ==
    LET a == OperandValue(e.assertion)
    IN  IF a.type # "Bool" THEN EvalErr(TypeError)
        ELSE IF ~a.bool THEN EvalErr(AssertionError)
        ELSE EvalOk(OperandValue(e.then))

\* C11: evaluating Assert{assertion, then} whose operands are literals or
\* built-ins gives a type error when the assertion is not a Bool, an
\* assertion error when it is false, and the value of `then` when it is true
\* (`assert true; 42` yields Int(42)).
C11_AssertEvaluation ==
    (/\ RootEvaluated
     /\ call.built.expr.expr = "Assert"
     /\ call.built.expr.assertion.expr \in {"Value", "Variable"}
     /\ call.built.expr.then.expr \in {"Value", "Variable"})
    => call.result = AssertOutcome(call.built.expr)

\* The literal at the root of the source of the call, and whether it is a
\* path literal with the given anchor.
RootLiteral == call.raw.raw.v

RootIsPath(anchor) ==
    /\ Built
    /\ call.raw.raw.raw = "Value"
    /\ RootLiteral.tag = "Ok"
    /\ RootLiteral.rnix = "Path"
    /\ RootLiteral.anchor = anchor

\* `base` followed by `path`, and a path with its last component removed.
Followed(base, path) ==
    PathOf(base.absolute, base.components \o path.components)

WithoutLast(path) ==
    PathOf(path.absolute, SubSeq(path.components, 1, Len(path.components) - 1))

\* The search directory of the call: the directory containing the source
\* file, or the one given with source text.
SearchDir ==
    IF call.source.source = "File" THEN WithoutLast(call.source.path)
    ELSE call.source.search_path

BuiltPath(path) ==
    /\ call.built.tag = "Ok"
    /\ call.built.expr = ExprValue(ValuePath(path))

\* Building has read nothing but the source file itself.
NoFileTouched == call.reads = fs_reads(call.source)

C13_SearchPathDeferred ==
    RootIsPath("Store") =>
        /\ call.built.tag = "Ok"
        /\ call.built.expr.expr = "NixPath"
        /\ call.built.expr.path = RootLiteral.path
        /\ call.stage = "built" => call.result.tag = "none"

\* `<nixpkgs>` has been built although no search path entry holds nixpkgs.
C13_Witness ==
    /\ RootIsPath("Store")
    /\ ~env.entry_has_target
    /\ call.stage = "built"
    /\ call.built.expr = ExprNixPath(PathOf(FALSE, <<"nixpkgs">>))

\* A literal that to_value() rejects.
FailingLiteral(raw) == raw.raw = "Value" /\ raw.v.tag = "Err"

\* The cause message the builder owes each kind of rejected literal.
CauseMessage(e) ==
    CASE e.kind = "Float" -> <<"invalid float: ", e.cause>>
      [] e.kind = "Integer" -> <<"invalid integer: ", e.cause>>
      [] e.kind = "String" -> <<"invalid string">>
      [] e.kind = "StorePath" -> <<"invalid store path">>
      [] e.kind = "Unknown" -> <<"invalid literal">>

\* The builder as Builder::new leaves it for the call.
NewBuilder == BuilderNew(call.search_path, env.home)

\* The build failed at `span` with the cause of literal `lit`, allocated
\* nothing after the allocations `before`, and the failure is what eval
\* returned, printed as a diagnostic.
BuildFailedAt(span, lit, before) ==
    /\ call.built.tag = "Err"
    /\ call.built.error = [span |-> span, message |-> CauseMessage(lit.v)]
    /\ call.built.builder.allocs = before
    /\ call.stage = "returned"
    /\ call.result.tag = "Err"
    /\ \E i \in DOMAIN printed : printed[i] = Diagnostic

\* C14: a literal whose conversion fails makes the build fail with an error
\* at the literal's span and the cause message of its kind, without an Expr
\* node for the literal, and the failure is the result of the whole build:
\* for a literal at the root, as the condition of an assert, and as the body
\* of an assert whose condition has been translated.
C14_BadLiteralFailsBuild ==
    Built =>
        LET root == call.raw.raw
        IN  /\ FailingLiteral(root) =>
                BuildFailedAt(RootSpan, root, NewBuilder.allocs)
            /\ (root.raw = "Assert" /\ FailingLiteral(root.condition)) =>
                BuildFailedAt(<<1>>, root.condition, NewBuilder.allocs)
            /\ (/\ root.raw = "Assert"
                /\ translate_expr(NewBuilder, root.condition, <<1>>).tag = "Ok"
                /\ FailingLiteral(root.body)) =>
                BuildFailedAt(<<2>>, root.body,
                              translate_expr(NewBuilder, root.condition,
                                             <<1>>).builder.allocs)

\* `assert true; <an integer too large>` has failed at the body's span.
C14_Witness ==
    /\ Built
    /\ call.raw.raw.raw = "Assert"
    /\ call.raw.raw.condition = RawIdent("true")
    /\ FailingLiteral(call.raw.raw.body)
    /\ call.raw.raw.body.v.kind = "Integer"
    /\ call.built.tag = "Err"
    /\ call.built.error.span = <<2>>
    /\ call.stage = "returned"

\* The source of the call is the text `text`, and the call has been through
\* the build.
RootIsText(kind, text) ==
    /\ Built
    /\ call.raw.raw.raw = kind
    /\ call.raw.raw.text = text

LookupError ==
    [type |-> "eval::Error", variant |-> "Lookup", display |-> "attribute missing"]

\* The eval call has returned `result`.
Returned(result) == call.stage = "returned" /\ call.result = result

\* C16: indexing a set with a name it has yields the member's value, with a
\* name it lacks a lookup error, and in the or-default form the default's
\* value when the name is absent and the member's value when it is present.
C16_IndexSet ==
    /\ RootIsText("IndexSet", "{ a = 1; }.a") => Returned(EvalOk(ValueInt(1)))
    /\ RootIsText("IndexSet", "{ a = 1; }.b") => Returned(EvalErr(LookupError))
    /\ RootIsText("OrDefault", "{ a = 1; }.b or 9") =>
           Returned(EvalOk(ValueInt(9)))
    /\ RootIsText("OrDefault", "{ a = 1; }.a or 9") =>
           Returned(EvalOk(ValueInt(1)))

\* C17: the build of the function literal `x: y: [ x true ]` yields a Lambda
\* node whose captures are its flattened free variables: `true`, referenced
\* in the nested lambda and declared outside, is captured; `x`, declared by
\* the lambda itself, and `y`, declared inside it, are not.
C17_FlattenedCaptures ==
    RootIsText("Lambda", "x: y: [ x true ]") =>
        /\ call.built.tag = "Ok"
        /\ call.built.expr.expr = "Lambda"
        /\ call.built.expr.captures = {NewBuilder.scopes[1]["true"]}

EndedAlreadyPrinted ==
    /\ call.stage = "returned"
    /\ call.result.tag = "Err"
    /\ call.result.error.variant = "AlreadyPrinted"

\* C19: when eval fails with a parse or build error and main has exited,
\* exactly one diagnostic and nothing else has been printed, and the exit
\* status is 1.
C19_PrintedOnce ==
    (EndedAlreadyPrinted /\ status # "running") =>
        printed = <<Diagnostic>> /\ status = "exit 1"

\* The step is eval_expr on a root that is a literal Value node.
EvaluatesLiteral ==
    /\ call.stage = "built"
    /\ call'.stage # "built"
    /\ call.built.expr.expr = "Value"

\* C20: evaluating a literal Value node returns a value equal to the stored
\* one and leaves the AST, the arenas, the context and the output as they
\* were.
C20_LiteralEvalFrame ==
    [][EvaluatesLiteral =>
           /\ call'.stage = "returned"
           /\ call'.result = EvalOk(call.built.expr.value)
           /\ call'.built = call.built
           /\ UNCHANGED <<arena, codemap, env, printed, status>>]_vars

\* `42` has been evaluated to Int(42).
C20_Witness ==
    /\ call.stage = "returned"
    /\ call.built.tag = "Ok"
    /\ call.built.expr = ExprValue(ValueInt(42))
    /\ call.result = EvalOk(ValueInt(42))

\* The stages of eval in the order of its code.
StageOrder == <<"read", "parse", "build", "eval">>

\* The diagnostics emitted since the eval call began.
EmittedByCall ==
    Cardinality({i \in (call.before + 1)..Len(printed) : printed[i] = Diagnostic})

\* The call has ended with an error right after running the stages `ran`.
EndedWithErrorAfter(ran) ==
    /\ call.stage = "returned"
    /\ call.result.tag = "Err"
    /\ call.ran = ran

\* C21: the stages an eval call has run are an initial part of read, parse,
\* build, evaluate; a stage that fails is the last one run and the call
\* returns its error: after a read error nothing is parsed, after a parse
\* error no AST is built, after a build error nothing is evaluated; a parse
\* or build failure has emitted exactly one diagnostic, anything else none.
C21_StagesInOrder ==
    /\ call.ran = SubSeq(StageOrder, 1, Len(call.ran))
    /\ (call.result.tag = "Err" /\ call.result.error.variant = "Io") =>
           /\ EndedWithErrorAfter(<<"read">>)
           /\ call.raw.tag = "none" /\ call.built.tag = "none"
           /\ EmittedByCall = 0
    /\ call.raw.tag = "Err" =>
           /\ EndedWithErrorAfter(<<"read", "parse">>)
           /\ call.built.tag = "none"
           /\ EmittedByCall = 1
    /\ call.built.tag = "Err" =>
           /\ EndedWithErrorAfter(<<"read", "parse", "build">>)
           /\ EmittedByCall = 1
    /\ (call.raw.tag # "Err" /\ call.built.tag # "Err") => EmittedByCall = 0
    /\ (call.stage = "returned" /\ call.result.tag = "Ok") =>
           call.ran = StageOrder

\* A second call on the context has failed in the build after the first
\* failed too: three stages run, one diagnostic of its own.
C21_Witness ==
    /\ call.n = 2
    /\ call.before = 1
    /\ EndedWithErrorAfter(<<"read", "parse", "build">>)
    /\ call.built.tag = "Err"
    /\ printed = <<Diagnostic, Diagnostic>>

\* `span` lies in the subtree at `root`.
Within(span, root) ==
    /\ Len(span) >= Len(root)
    /\ SubSeq(span, 1, Len(root)) = root

\* The assert `node` at `span`, translated by builder `b` with outcome
\* `out`: the condition is translated by b and the body by the builder the
\* condition left; an outcome of the condition that is not Ok is the
\* outcome, builder included, so nothing of the body was resolved, cached
\* or allocated, and an error lies within the condition; likewise for the
\* body once the condition is translated; and when both are translated one
\* more Expr is allocated, the Assert node over the two translations.
AssertInOrder(b, node, span, out) ==
    LET cond == translate_expr(b, node.condition, Append(span, 1))
        body == translate_expr(cond.builder, node.body, Append(span, 2))
    IN  /\ cond.tag # "Ok" =>
              /\ out = cond
              /\ out.tag = "Err" => Within(out.error.span, Append(span, 1))
        /\ (cond.tag = "Ok" /\ body.tag # "Ok") =>
              /\ out = body
              /\ out.tag = "Err" => Within(out.error.span, Append(span, 2))
        /\ (cond.tag = "Ok" /\ body.tag = "Ok") =>
              /\ out.tag = "Ok"
              /\ out.expr = [expr |-> "Assert", assertion |-> cond.expr,
                             then |-> body.expr]
              /\ out.builder.allocs = Append(body.builder.allocs, "Expr")
              /\ out.builder.scopes = body.builder.scopes

\* C24: an assert is translated condition first, then body; a condition
\* that fails is the failure of the assert and its body is not translated;
\* a body that fails after its condition is the failure of the assert; only
\* when both are translated is an Assert node allocated, with the condition
\* as assertion and the body as then. For the assert at the root and for an
\* assert that is the condition of the root.
C24_AssertConditionFirst ==
    (Built /\ call.raw.raw.raw = "Assert") =>
        LET root == call.raw.raw
        IN  /\ AssertInOrder(NewBuilder, root, RootSpan, call.built)
            /\ root.condition.raw = "Assert" =>
                   AssertInOrder(NewBuilder, root.condition, <<1>>,
                                 translate_expr(NewBuilder, root.condition, <<1>>))

\* `assert x; <a literal that does not convert>`: the build has failed on
\* the identifier of the condition and allocated nothing.
C24_Witness ==
    /\ Built
    /\ call.raw.raw.raw = "Assert"
    /\ call.raw.raw.condition = RawIdent("x")
    /\ FailingLiteral(call.raw.raw.body)
    /\ call.built.tag = "Err"
    /\ call.built.error = [span |-> <<1>>, message |-> <<"cannot resolve variable">>]
    /\ call.built.builder.allocs = NewBuilder.allocs

----------------------------------------------------------------------------
(* Properties of attribute sets. *)

\* The keys in the order iteration yields them, and in the order Display
\* prints them.
IterKeys == [i \in DOMAIN members |-> members[i].key]

DisplayKeys == [i \in DOMAIN members |-> DisplaySet(members)[i][1]]

Ascending(keys) ==
    \A i, j \in DOMAIN keys : i < j => StringLess(keys[i], keys[j])

\* C15: whatever the order of the insertions, the set holds every inserted
\* attribute name exactly once, and iteration and display enumerate the
\* names in strictly ascending lexicographic order.
C15_SetOrdered ==
    /\ {IterKeys[i] : i \in DOMAIN IterKeys} = {inserted[i] : i \in DOMAIN inserted}
    /\ Ascending(IterKeys)
    /\ DisplayKeys = IterKeys

\* `{ b = 2; a = 1; }`: b inserted before a, a enumerated before b.
C15_Witness ==
    /\ inserted = << <<98>>, <<97>> >>
    /\ members = << [key |-> <<97>>, value |-> 1], [key |-> <<98>>, value |-> 2] >>

----------------------------------------------------------------------------
(* Properties of the choice of the parse error. *)

\* The rank of a reported error: 2 for an unexpected node that is not empty,
\* 1 for an empty one and for a missing token, 0 for the bare end of input.
RankOf(e) ==
    IF e.error = "Unexpected" /\ e.node.start < e.node.end THEN 2
    ELSE IF e.error = "UnexpectedEOF" THEN 0
    ELSE 1

Reported == {errors[i] : i \in DOMAIN errors}

\* C22: extract_error returns Ok exactly when no error was reported, and
\* otherwise one error, made from a reported error whose rank no reported
\* error exceeds.
C22_BestRank ==
    extracted.tag # "none" =>
        /\ extracted.tag = "Ok" <=> errors = << >>
        /\ extracted.tag = "Err" =>
               /\ extracted.error.inner \in Reported
               /\ \A e \in Reported : RankOf(e) <= RankOf(extracted.error.inner)

\* Errors of all three ranks were reported, the best of them in the middle,
\* and it is the one returned.
C22_Witness ==
    /\ errors = <<UnexpectedEOF, Unexpected(Range(0, 1)), UnexpectedEOFWanted("in")>>
    /\ extracted.tag = "Err"
    /\ extracted.error.inner = Unexpected(Range(0, 1))

\* The first reported error of the best rank.
FirstBest ==
    LET best == {i \in DOMAIN errors :
                    \A j \in DOMAIN errors : RankOf(errors[j]) <= RankOf(errors[i])}
    IN  errors[CHOOSE i \in best : \A j \in best : i <= j]

\* C23: when several reported errors share the best rank, extract_error
\* returns the first of them in the order they were reported.
C23_FirstOfBest ==
    extracted.tag = "Err" => extracted.error.inner = FirstBest

----------------------------------------------------------------------------
(* Properties of the log level. *)

Least(a, b) == IF a <= b THEN a ELSE b

\* C25: for every count of -v and of -q, run either rejects the command
\* line, exactly when both counts are positive and before a logger is
\* initialised, or initialises the logger at level
\* 3 - min(quiet, 3) + min(verbosity, 2), computed without wrapping, between
\* 0 and 5, never reaching the unreachable arm; no flag gives Info, three or
\* more -q give Off, two or more -v give Trace.
C25_LevelInRange ==
    logger.state # "none" =>
        /\ logger.state = "rejected" <=> (opts.verbosity > 0 /\ opts.quiet > 0)
        /\ logger.state # "rejected" =>
              /\ logger.state = "init"
              /\ ~logger.overflow
              /\ logger.level = 3 - Least(opts.quiet, 3) + Least(opts.verbosity, 2)
              /\ logger.level \in 0..5
              /\ (opts.verbosity = 0 /\ opts.quiet = 0) => logger.filter = "Info"
              /\ opts.quiet >= 3 => logger.filter = "Off"
              /\ opts.verbosity >= 2 => logger.filter = "Trace"

\* The most -q a u8 counts: the logger is initialised at Off.
C25_Witness ==
    /\ opts = [verbosity |-> 0, quiet |-> U8Max]
    /\ logger.state = "init"
    /\ logger.filter = "Off"
    /\ logger.level = 0

====
